---- MODULE Spec2Model ----
(***************************************************************************)
(* Ticketing backend: registration, login, bearer-token authentication and *)
(* owner-scoped ticket create / update / delete, over a relational store   *)
(* holding the users and tickets tables.                                   *)
(***************************************************************************)
EXTENDS Integers, Sequences, FiniteSets, TLC

\* ------------------------------------------------------------------ bounds
NumRegs == 2          \* registration requests that are ever made
MaxTicketId == 2      \* largest ticket id the store hands out
TickMinutes == 15     \* minutes the clock advances in one step
MaxTicks == 2         \* steps the clock advances

\* ------------------------------------------------------- program constants
ACCESS_TOKEN_EXPIRE_MINUTES == 60
DefaultExpireMinutes == 15
SECRET_KEY == "your_secret_key"

None == "None"        \* Python's None / SQL NULL / an absent JSON value

Usernames == {"alice", "bob"}
Passwords == {"pw1", "pw2"}
Salts == {"s1", "s2"}

VARIABLES
    users,      \* the users table: a sequence of rows, in insertion order
    tickets,    \* the tickets table: a set of rows
    reg,        \* the register_user requests, each at its own position
    issued,     \* per username, the token its latest login returned, and when
    now,        \* the clock (datetime.utcnow), in minutes
    last        \* the most recent login or ticket request and its status

vars == <<users, tickets, reg, issued, now, last>>

\* ------------------------------------------------------- credential hasher
\* bcrypt: the salt is embedded in the hash string, verification recomputes
\* the digest of the candidate under that salt.
hash_password(password, salt) == [salt |-> salt, digest |-> password]

verify_password(plain_password, hashed_password) ==
    hashed_password.digest = plain_password

\* ------------------------------------------------------------- token codec
create_access_token(data, expires_delta, t) ==
    [wellformed |-> TRUE,
     key |-> SECRET_KEY,
     sub |-> data.sub,
     exp |-> t + (IF expires_delta # None THEN expires_delta
                  ELSE DefaultExpireMinutes)]

jwt_decode_strict(token, key, t) ==
    IF ~token.wellformed \/ token.key # key \/ token.exp <= t
    THEN [ok |-> FALSE, sub |-> None, exp |-> 0]
    ELSE [ok |-> TRUE, sub |-> token.sub, exp |-> token.exp]

\* jose.jwt.decode: a JWTError when the structure is malformed, the signature
\* does not verify under the key, or exp < now; the claims otherwise.
jwt_decode(token, key, t) ==
    IF ~token.wellformed \/ token.key # key \/ token.exp < t
    THEN [ok |-> FALSE, sub |-> None, exp |-> 0]
    ELSE [ok |-> TRUE, sub |-> token.sub, exp |-> token.exp]

\* db.query(User).filter(User.username == username).first()
RowsNamed(us, username) == {i \in 1..Len(us) : us[i].username = username}

UserExists(us, username) == RowsNamed(us, username) # {}

FirstUser(us, username) ==
    us[CHOOSE i \in RowsNamed(us, username) :
           \A j \in RowsNamed(us, username) : i <= j]

\* ----------------------------------------------------- request authenticator
credentials_exception ==
    [status_code |-> 401, detail |-> "Could not validate credentials"]

IsUser(r) == "id" \in DOMAIN r

get_current_user_leaky(token, us, t) ==
    LET payload == jwt_decode(token, SECRET_KEY, t) IN
    IF ~payload.ok THEN credentials_exception
    ELSE IF payload.sub = None THEN credentials_exception
    ELSE IF ~UserExists(us, payload.sub)
    THEN [status_code |-> 404, detail |-> "User not found"]
    ELSE FirstUser(us, payload.sub)

get_current_user(token, us, t) ==
    LET payload == jwt_decode(token, SECRET_KEY, t) IN
    IF ~payload.ok THEN credentials_exception
    ELSE IF payload.sub = None THEN credentials_exception
    ELSE IF ~UserExists(us, payload.sub) THEN credentials_exception
    ELSE FirstUser(us, payload.sub)

\* ---------------------------------------------------------------- auth flow
login_user_enumerable(us, username, password, t) ==
    IF ~UserExists(us, username)
    THEN [status_code |-> 401, detail |-> "Unknown username"]
    ELSE IF ~verify_password(password, FirstUser(us, username).hashed_password)
    THEN [status_code |-> 401, detail |-> "Invalid credentials"]
    ELSE [status_code |-> 200, token_type |-> "bearer",
          access_token |->
              create_access_token([sub |-> FirstUser(us, username).username],
                                  None, t)]

login_user(us, username, password, t) ==
    IF ~UserExists(us, username)
       \/ ~verify_password(password, FirstUser(us, username).hashed_password)
    THEN [status_code |-> 401, detail |-> "Invalid credentials"]
    ELSE [status_code |-> 200, token_type |-> "bearer",
          access_token |->
              create_access_token([sub |-> FirstUser(us, username).username],
                                  None, t)]

\* register_user, first statement: the existence query.  A request that finds
\* the username answers 400; one that does not goes on to hash, add and commit.
register_user_query(us, username) ==
    IF UserExists(us, username)
    THEN [status_code |-> 400, detail |-> "Username already exists"]
    ELSE [status_code |-> 0, detail |-> "continue"]

\* The users table's uniqueness constraint on username, enforced by the store
\* when a row is inserted.
UniqueViolation(us, username) == UserExists(us, username)

\* register_user, the rest: hash_password, db.add, db.commit.  A commit the
\* store refuses raises out of the handler (no except clause): a 500.
register_user_commit(us, username, password, salt) ==
    IF UniqueViolation(us, username)
    THEN [users |-> us, status_code |-> 500, detail |-> "Internal Server Error"]
    ELSE [users |-> Append(us, [id |-> Len(us) + 1,
                                username |-> username,
                                hashed_password |-> hash_password(password, salt)]),
          status_code |-> 201, detail |-> "User created successfully"]

\* -------------------------------------------------------------- ticket model
TicketStatus == {"open", "in_progress", "closed"}
TicketPriority == {"low", "medium", "high"}
Fields == {"title", "description", "status", "priority"}

\* TicketBase: status and priority default when the body leaves them out.
TicketCreate(body) ==
    [title |-> body.title,
     description |-> body.description,
     status |-> IF "status" \in DOMAIN body THEN body.status ELSE "open",
     priority |-> IF "priority" \in DOMAIN body THEN body.priority ELSE "medium"]

\* TicketRead, the response model: every field must validate.
TicketReadValid(tk) ==
    /\ tk.title # None
    /\ tk.description # None
    /\ tk.status \in TicketStatus
    /\ tk.priority \in TicketPriority

\* Ticket columns declared nullable=False.
NotNullOk(tk) == tk.title # None /\ tk.description # None

TicketIds(tks) == {tk.id : tk \in tks}

\* SQLite INTEGER PRIMARY KEY: one more than the largest id in the table.
NextTicketId(tks) ==
    IF tks = {} THEN 1
    ELSE 1 + CHOOSE m \in TicketIds(tks) : \A i \in TicketIds(tks) : i <= m

OwnedTickets_anyowner(tks, ticket_id, uid) ==
    {tk \in tks : tk.id = ticket_id}

\* db.query(Ticket).filter(Ticket.id == ticket_id, Ticket.user_id == uid)
OwnedTickets(tks, ticket_id, uid) ==
    {tk \in tks : tk.id = ticket_id /\ tk.user_id = uid}

\* ------------------------------------------------------------ ticket handlers
create_ticket_noauth(tks, us, t, token, body) ==
    LET current_user == get_current_user(token, us, t)
        payload == TicketCreate(body)
    IN  [tickets |-> tks \cup {[id |-> NextTicketId(tks),
                                title |-> payload.title,
                                description |-> payload.description,
                                status |-> payload.status,
                                priority |-> payload.priority,
                                created_at |-> t,
                                user_id |-> IF IsUser(current_user)
                                            THEN current_user.id ELSE 0]},
         status_code |-> 201, detail |-> "created"]

create_ticket(tks, us, t, token, body) ==
    LET current_user == get_current_user(token, us, t)
        payload == TicketCreate(body)
        ticket == [id |-> NextTicketId(tks),
                   title |-> payload.title,
                   description |-> payload.description,
                   status |-> payload.status,
                   priority |-> payload.priority,
                   created_at |-> t,
                   user_id |-> current_user.id]
    IN  IF ~IsUser(current_user)
        THEN [tickets |-> tks, status_code |-> current_user.status_code,
              detail |-> current_user.detail]
        ELSE [tickets |-> tks \cup {ticket}, status_code |-> 201,
              detail |-> "created"]

TicketUpdate_allowextra(body) == body

\* TicketUpdate: the four optional fields; pydantic drops any other key of the
\* request body, and the set of supplied fields is remembered.
TicketUpdate(body) == [f \in DOMAIN body \cap Fields |-> body[f]]

ApplyUpdate_defaults(tk, payload) ==
    [f \in DOMAIN tk |->
        IF f \in DOMAIN payload THEN payload[f]
        ELSE IF f = "status" THEN "open"
        ELSE IF f = "priority" THEN "medium"
        ELSE tk[f]]

\* for key, value in payload.model_dump(exclude_unset=True).items(): setattr
ApplyUpdate(tk, payload) ==
    [f \in DOMAIN tk |-> IF f \in DOMAIN payload THEN payload[f] ELSE tk[f]]

update_ticket(tks, us, t, token, ticket_id, body) ==
    LET current_user == get_current_user(token, us, t) IN
    IF ~IsUser(current_user)
    THEN [tickets |-> tks, status_code |-> current_user.status_code,
          detail |-> current_user.detail]
    ELSE IF OwnedTickets(tks, ticket_id, current_user.id) = {}
    THEN [tickets |-> tks, status_code |-> 404,
          detail |-> "Ticket not found or not owned by user"]
    ELSE LET ticket == CHOOSE tk \in OwnedTickets(tks, ticket_id, current_user.id) : TRUE
             updated == ApplyUpdate(ticket, TicketUpdate(body))
         IN  IF ~NotNullOk(updated)
             THEN [tickets |-> tks, status_code |-> 500,
                   detail |-> "Internal Server Error"]
             ELSE [tickets |-> (tks \ {ticket}) \cup {updated},
                   status_code |-> IF TicketReadValid(updated) THEN 200 ELSE 500,
                   detail |-> IF TicketReadValid(updated) THEN "updated"
                              ELSE "Internal Server Error"]

delete_ticket(tks, us, t, token, ticket_id) ==
    LET current_user == get_current_user(token, us, t) IN
    IF ~IsUser(current_user)
    THEN [tickets |-> tks, status_code |-> current_user.status_code,
          detail |-> current_user.detail]
    ELSE IF OwnedTickets(tks, ticket_id, current_user.id) = {}
    THEN [tickets |-> tks, status_code |-> 404,
          detail |-> "Ticket not found or not owned by user"]
    ELSE [tickets |-> tks \ OwnedTickets(tks, ticket_id, current_user.id),
          status_code |-> 204, detail |-> "deleted"]

\* ------------------------------------------------------------ request inputs
MaxTime == MaxTicks * TickMinutes

\* Tokens nobody was issued by a login of this run: garbage, a signature under
\* another key, signed claims without a subject, a subject that names no
\* registered user, and a signed token for alice whose expiry has passed.
ForgedTokens ==
    {[wellformed |-> FALSE, key |-> SECRET_KEY, sub |-> "alice", exp |-> MaxTime],
     [wellformed |-> TRUE, key |-> "other_key", sub |-> "alice", exp |-> MaxTime],
     [wellformed |-> TRUE, key |-> SECRET_KEY, sub |-> None, exp |-> MaxTime],
     [wellformed |-> TRUE, key |-> SECRET_KEY, sub |-> "mallory", exp |-> MaxTime],
     [wellformed |-> TRUE, key |-> SECRET_KEY, sub |-> "alice", exp |-> -1]}

IssuedTokens == {i.token : i \in issued}

RequestTokens == IssuedTokens \cup ForgedTokens

\* The forged tokens the ticket requests of SpecTickets present: the bad
\* signature and the expired one.
TicketTokens ==
    IssuedTokens \cup {tok \in ForgedTokens : tok.key # SECRET_KEY \/ tok.exp < 0}

CreateBodies ==
    {[title |-> "t", description |-> "d"],
     [title |-> "", description |-> "d", status |-> "closed", priority |-> "high"]}

UpdateBodies ==
    {[status |-> "closed"],
     [status |-> None],
     [title |-> None],
     [status |-> "open", user_id |-> 2]}

RequestIds == 1..(MaxTicketId + 1)

\* ----------------------------------------------------------------- the system
NoRequest == [op |-> "none", username |-> None, ticket_id |-> 0, status_code |-> 0]

Init ==
    /\ users = <<>>
    /\ tickets = {}
    /\ reg = [r \in 1..NumRegs |-> [pc |-> "start", username |-> None, status_code |-> 0]]
    /\ issued = {}
    /\ now = 0
    /\ last = NoRequest

\* The username a request's token authenticates, None when it does not.
Caller(token) ==
    LET u == get_current_user(token, users, now) IN
    IF IsUser(u) THEN u.username ELSE None

RegisterQuery(r, username) ==
    /\ reg[r].pc = "start"
    /\ LET q == register_user_query(users, username) IN
       reg' = [reg EXCEPT ![r] =
                  IF q.status_code = 400
                  THEN [pc |-> "done", username |-> username, status_code |-> 400]
                  ELSE [pc |-> "checked", username |-> username, status_code |-> 0]]
    /\ UNCHANGED <<users, tickets, issued, now, last>>

RegisterCommit(r, password, salt) ==
    /\ reg[r].pc = "checked"
    /\ LET c == register_user_commit(users, reg[r].username, password, salt) IN
       /\ users' = c.users
       /\ reg' = [reg EXCEPT ![r] = [pc |-> "done", username |-> reg[r].username,
                                     status_code |-> c.status_code]]
    /\ UNCHANGED <<tickets, issued, now, last>>

Login(username, password) ==
    /\ LET resp == login_user(users, username, password, now) IN
       /\ issued' = IF resp.status_code = 200
                    THEN {i \in issued : i.username # username}
                         \cup {[username |-> username,
                                 uid |-> FirstUser(users, username).id,
                                 token |-> resp.access_token, iat |-> now]}
                    ELSE issued
       /\ last' = [op |-> "login", username |-> username, ticket_id |-> 0,
                   status_code |-> resp.status_code]
    /\ UNCHANGED <<users, tickets, reg, now>>

CreateTicket(token, body) ==
    /\ NextTicketId(tickets) <= MaxTicketId
    /\ LET r == create_ticket(tickets, users, now, token, body) IN
       /\ tickets' = r.tickets
       /\ last' = [op |-> "create", username |-> Caller(token),
                   ticket_id |-> NextTicketId(tickets),
                   status_code |-> r.status_code]
    /\ UNCHANGED <<users, reg, issued, now>>

UpdateTicket(token, ticket_id, body) ==
    /\ LET r == update_ticket(tickets, users, now, token, ticket_id, body) IN
       /\ tickets' = r.tickets
       /\ last' = [op |-> "update", username |-> Caller(token),
                   ticket_id |-> ticket_id, status_code |-> r.status_code]
    /\ UNCHANGED <<users, reg, issued, now>>

DeleteTicket(token, ticket_id) ==
    /\ LET r == delete_ticket(tickets, users, now, token, ticket_id) IN
       /\ tickets' = r.tickets
       /\ last' = [op |-> "delete", username |-> Caller(token),
                   ticket_id |-> ticket_id, status_code |-> r.status_code]
    /\ UNCHANGED <<users, reg, issued, now>>

Tick ==
    /\ now + TickMinutes <= MaxTime
    /\ now' = now + TickMinutes
    /\ UNCHANGED <<users, tickets, reg, issued, last>>

\* Registration, login, the clock and a protected route: the authentication
\* flow from an empty store.
Next ==
    \/ \E r \in 1..NumRegs, u \in Usernames : RegisterQuery(r, u)
    \/ \E r \in 1..NumRegs, p \in Passwords, s \in Salts : RegisterCommit(r, p, s)
    \/ \E u \in Usernames, p \in Passwords : Login(u, p)
    \/ \E tok \in RequestTokens : DeleteTicket(tok, 1)
    \/ Tick

Spec == Init /\ [][Next]_vars

\* The ticket handlers, from a store in which alice and bob have registered
\* (a state Spec reaches: see TwoUsersRegistered).
InitTickets ==
    /\ users = <<[id |-> 1, username |-> "alice",
                  hashed_password |-> hash_password("pw1", "s1")],
                 [id |-> 2, username |-> "bob",
                  hashed_password |-> hash_password("pw2", "s2")]>>
    /\ tickets = {}
    /\ reg = [r \in 1..NumRegs |->
                 IF r = 1 THEN [pc |-> "done", username |-> "alice", status_code |-> 201]
                 ELSE IF r = 2 THEN [pc |-> "done", username |-> "bob", status_code |-> 201]
                 ELSE [pc |-> "start", username |-> None, status_code |-> 0]]
    /\ issued = {}
    /\ now = 0
    /\ last = NoRequest

NextTickets ==
    \/ \E u \in Usernames, p \in Passwords : Login(u, p)
    \/ \E tok \in TicketTokens, b \in CreateBodies : CreateTicket(tok, b)
    \/ \E tok \in TicketTokens, i \in RequestIds, b \in UpdateBodies :
           UpdateTicket(tok, i, b)
    \/ \E tok \in TicketTokens, i \in RequestIds : DeleteTicket(tok, i)

SpecTickets == InitTickets /\ [][NextTickets]_vars

\* A state of Spec from which SpecTickets starts: both users registered, no
\* login and no ticket request made yet.
TwoUsersRegistered ==
    /\ Len(users) = 2
    /\ users[1] = [id |-> 1, username |-> "alice",
                   hashed_password |-> hash_password("pw1", "s1")]
    /\ users[2] = [id |-> 2, username |-> "bob",
                   hashed_password |-> hash_password("pw2", "s2")]
    /\ reg[1] = [pc |-> "done", username |-> "alice", status_code |-> 201]
    /\ reg[2] = [pc |-> "done", username |-> "bob", status_code |-> 201]
    /\ issued = {} /\ tickets = {} /\ now = 0 /\ last = NoRequest

\* ----------------------------------------------------------------- properties
Authenticates(tok) == IsUser(get_current_user(tok, users, now))

\* C1: for distinct users A and B and a ticket created by B, an authenticated
\* update_ticket or delete_ticket request by A on that ticket is answered 404
\* and leaves the tickets table (that ticket included) exactly as it was.
C1_NonOwnerGets404 ==
    \A tok \in RequestTokens, tk \in tickets :
        LET A == get_current_user(tok, users, now) IN
        (IsUser(A) /\ tk.user_id # A.id /\ \E i \in 1..Len(users) : users[i].id = tk.user_id)
        => /\ LET d == delete_ticket(tickets, users, now, tok, tk.id) IN
              d.status_code = 404 /\ d.tickets = tickets /\ tk \in d.tickets
           /\ \A b \in UpdateBodies :
                  LET u == update_ticket(tickets, users, now, tok, tk.id, b) IN
                  u.status_code = 404 /\ u.tickets = tickets /\ tk \in u.tickets

\* A user that does not own ticket last.ticket_id has just been answered 404
\* by update_ticket, and the ticket is still stored.
C1_Witness ==
    /\ last.op = "update" /\ last.status_code = 404 /\ last.username # None
    /\ \E tk \in tickets :
          /\ tk.id = last.ticket_id
          /\ tk.user_id # FirstUser(users, last.username).id
          /\ \E i \in 1..Len(users) : users[i].id = tk.user_id

\* C2: of the register_user requests that have completed for one username,
\* when there are two or more, exactly one was answered 201 and every other
\* one 400.
DoneFor(u) == {r \in 1..NumRegs : reg[r].pc = "done" /\ reg[r].username = u}

C2_OneSuccessOneConflict ==
    \A u \in Usernames :
        Cardinality(DoneFor(u)) >= 2
        => /\ Cardinality({r \in DoneFor(u) : reg[r].status_code = 201}) = 1
           /\ \A r \in DoneFor(u) : reg[r].status_code \in {201, 400}

\* C3: a token issued by login_user is accepted by get_current_user at any
\* time before issuance + 60 minutes and rejected at any time after it.
C3_ExpiresAfter60Minutes ==
    \A i \in issued :
        /\ now < i.iat + ACCESS_TOKEN_EXPIRE_MINUTES => Authenticates(i.token)
        /\ now > i.iat + ACCESS_TOKEN_EXPIRE_MINUTES => ~Authenticates(i.token)

\* C4: a login with an unknown username and a login with a known username but
\* a wrong password get the same response, a 401 without a token; a token is
\* issued only when the username exists and the password verifies against the
\* stored hash of that user.
LoginNames == Usernames \cup {"mallory"}

C4_LoginFailuresIndistinguishable ==
    /\ \A u1 \in LoginNames, u2 \in LoginNames, p1 \in Passwords, p2 \in Passwords :
          (/\ ~UserExists(users, u1)
           /\ UserExists(users, u2)
           /\ ~verify_password(p2, FirstUser(users, u2).hashed_password))
          => /\ login_user(users, u1, p1, now) = login_user(users, u2, p2, now)
             /\ login_user(users, u1, p1, now).status_code = 401
             /\ "access_token" \notin DOMAIN login_user(users, u1, p1, now)
    /\ \A u \in LoginNames, p \in Passwords :
          "access_token" \in DOMAIN login_user(users, u, p, now)
          => /\ UserExists(users, u)
             /\ verify_password(p, FirstUser(users, u).hashed_password)
    /\ \A i \in issued : UserExists(users, i.username)

\* A login with a wrong password for a registered user has just been refused,
\* while another username is still unregistered.
C4_Witness ==
    /\ last.op = "login" /\ last.status_code = 401
    /\ UserExists(users, last.username)
    /\ \E u \in Usernames : ~UserExists(users, u)

\* C5: every token get_current_user rejects, at whichever stage (decoding,
\* missing subject, subject without a user), gets one and the same error.
DecodeFails(tok) == ~jwt_decode(tok, SECRET_KEY, now).ok

NoSubject(tok) == ~DecodeFails(tok) /\ jwt_decode(tok, SECRET_KEY, now).sub = None

UnknownSubject(tok) ==
    /\ ~DecodeFails(tok) /\ ~NoSubject(tok)
    /\ ~UserExists(users, jwt_decode(tok, SECRET_KEY, now).sub)

C5_UniformAuthFailure ==
    \A t1 \in RequestTokens, t2 \in RequestTokens :
        (~Authenticates(t1) /\ ~Authenticates(t2))
        => get_current_user(t1, users, now) = get_current_user(t2, users, now)

\* A protected request has just been refused with 401 in a state where the
\* presentable tokens fail at each of the three stages, one of them an issued
\* token that has expired.
C5_Witness ==
    /\ last.op = "delete" /\ last.status_code = 401
    /\ \E tok \in IssuedTokens : DecodeFails(tok)
    /\ \E tok \in RequestTokens : NoSubject(tok)
    /\ \E tok \in RequestTokens : UnknownSubject(tok)

\* C6: after an update_ticket answered 200, the ticket has the supplied value
\* in every field the body supplied, its former value in every other one of
\* title, description, status, priority, and its former id, creation
\* timestamp and owner; every other ticket is as it was.
C6_PartialUpdate ==
    \A tok \in RequestTokens, i \in RequestIds, b \in UpdateBodies :
        LET r == update_ticket(tickets, users, now, tok, i, b) IN
        r.status_code = 200
        => \E old \in tickets, new \in r.tickets :
              /\ old.id = i /\ new.id = i
              /\ \A f \in Fields \cap DOMAIN b : new[f] = b[f]
              /\ \A f \in Fields \ DOMAIN b : new[f] = old[f]
              /\ new.created_at = old.created_at
              /\ new.user_id = old.user_id
              /\ r.tickets \ {new} = tickets \ {old}

\* The owner's update with only status = closed has just been answered 200:
\* the ticket created with the defaults is closed, title, description and
\* priority as created, and a second ticket is stored beside it.
C6_Witness ==
    /\ last.op = "update" /\ last.status_code = 200
    /\ Cardinality(tickets) = 2
    /\ \E tk \in tickets :
          /\ tk.id = last.ticket_id
          /\ tk.status = "closed" /\ tk.priority = "medium"
          /\ tk.title = "t" /\ tk.description = "d"

\* C7: a create, update or delete request whose token does not authenticate
\* is answered 401 and changes neither table; every step that changes the
\* tickets table is a ticket request whose token get_current_user accepted.
C7_Unauthenticated ==
    \A tok \in RequestTokens :
        ~Authenticates(tok)
        => /\ \A b \in CreateBodies :
                  LET r == create_ticket(tickets, users, now, tok, b) IN
                  r.status_code = 401 /\ r.tickets = tickets
           /\ \A i \in RequestIds, b \in UpdateBodies :
                  LET r == update_ticket(tickets, users, now, tok, i, b) IN
                  r.status_code = 401 /\ r.tickets = tickets
           /\ \A i \in RequestIds :
                  LET r == delete_ticket(tickets, users, now, tok, i) IN
                  r.status_code = 401 /\ r.tickets = tickets

C7_StepAuthenticated ==
    /\ tickets' # tickets
       => /\ last'.op \in {"create", "update", "delete"}
          /\ last'.username # None
          /\ UserExists(users, last'.username)
    /\ (last' # last /\ last'.op \in {"create", "update", "delete"}
        /\ last'.username = None)
       => last'.status_code = 401 /\ tickets' = tickets /\ users' = users

C7_WritesNeedAuthentication ==
    [] C7_Unauthenticated /\ [][C7_StepAuthenticated]_vars

\* An update presented without a valid token has just been refused with 401
\* while the ticket it named is stored.
C7_Witness ==
    /\ last.op = "update" /\ last.status_code = 401 /\ last.username = None
    /\ \E tk \in tickets : tk.id = last.ticket_id

\* C8: a token returned by login_user for username u, while unexpired,
\* resolves through get_current_user to the user record named u against which
\* the password was verified at that login.
C8_TokenResolvesToLoginUser ==
    \A i \in issued :
        now <= i.token.exp
        => LET r == get_current_user(i.token, users, now) IN
           /\ IsUser(r)
           /\ r.username = i.username
           /\ r.id = i.uid

\* bob's token, issued after a tick and presented at the instant of its
\* expiry, has just been accepted on a protected route; alice registered
\* before bob.
C8_Witness ==
    /\ last.op = "delete" /\ last.username = "bob" /\ last.status_code = 404
    /\ Len(users) = 2
    /\ \E i \in issued : i.username = "bob" /\ i.uid = 2 /\ i.iat > 0
                         /\ now = i.token.exp

\* C9: every stored ticket's owner is exactly one user row; a step keeps the
\* owner of every ticket it keeps, and a ticket it adds is owned by the user
\* whose authenticated create_ticket request the step is.
C9_OwnerIsAUser ==
    \A tk \in tickets :
        Cardinality({i \in 1..Len(users) : users[i].id = tk.user_id}) = 1

C9_StepKeepsOwner ==
    \A new \in tickets' :
        IF \E old \in tickets : old.id = new.id
        THEN \A old \in tickets : old.id = new.id => old.user_id = new.user_id
        ELSE /\ last'.op = "create" /\ last'.status_code = 201
             /\ last'.username # None
             /\ new.id = last'.ticket_id
             /\ new.user_id = FirstUser(users, last'.username).id

C9_OwnerNeverChanges ==
    [] C9_OwnerIsAUser /\ [][C9_StepKeepsOwner]_vars

\* alice has just reopened her ticket with a body that also carried
\* user_id = 2; the ticket is still hers, next to a ticket of bob's.
C9_Witness ==
    /\ last.op = "update" /\ last.status_code = 200 /\ last.username = "alice"
    /\ \E tk \in tickets :
          /\ tk.id = last.ticket_id /\ tk.user_id = 1
          /\ tk.title = "" /\ tk.status = "open"
    /\ \E tk \in tickets : tk.user_id = 2

\* C10: every stored ticket has a non-empty title, a non-empty description, a
\* status among open, in_progress, closed and a priority among low, medium,
\* high; a ticket created without status or priority is open and medium.
C10_TicketFieldsValid ==
    /\ \A tk \in tickets :
          /\ tk.title \notin {"", None}
          /\ tk.description \notin {"", None}
          /\ tk.status \in TicketStatus
          /\ tk.priority \in TicketPriority
    /\ \A tok \in RequestTokens, b \in CreateBodies :
          LET r == create_ticket(tickets, users, now, tok, b) IN
          r.status_code = 201
          => \A tk \in r.tickets \ tickets :
                /\ "status" \notin DOMAIN b => tk.status = "open"
                /\ "priority" \notin DOMAIN b => tk.priority = "medium"
====

